---- MODULE Spec2Model ----
(***************************************************************************)
(* MEREC criteria weighting (rey-workbench/DSS-MEREC).                     *)
(*                                                                         *)
(* The model follows src/src/merec.ts (the two entry points) and the six   *)
(* calculation stages with their validators.                               *)
(*                                                                         *)
(* Numbers.  A JavaScript number is modelled as a record                   *)
(*     [k |-> "nan"], [k |-> "inf", n |-> +1/-1] or                         *)
(*     [k |-> "fin", n, d, e]   standing for  (n / d) * 10^e               *)
(* kept in canonical form (d > 0, gcd(n, d) = 1, no factor 10 in n or d,   *)
(* zero is 0/1 * 10^0).  Finite results are exact rationals; the range of  *)
(* a binary64 is kept: a non-zero result below the smallest subnormal      *)
(* becomes 0 and a result above the largest double becomes Infinity, and   *)
(* an addend 17 or more decimal orders below the other is absorbed.        *)
(* Math.log is computed to LnDigits decimals (argument reduction by powers *)
(* of two and the atanh series), so sums of logarithms are fixed-point.    *)
(* All intermediate integers stay below 2^31.                              *)
(***************************************************************************)
EXTENDS Integers, Sequences, FiniteSets, TLC

----------------------------------------------------------------------------
(* Integer helpers *)

AbsInt(x) == IF x < 0 THEN -x ELSE x
MinInt(x, y) == IF x < y THEN x ELSE y
MaxInt(x, y) == IF x < y THEN y ELSE x

RECURSIVE Gcd(_, _)
Gcd(x, y) == IF y = 0 THEN x ELSE Gcd(y, x % y)

RECURSIVE Pow10(_)
Pow10(k) == IF k <= 0 THEN 1 ELSE 10 * Pow10(k - 1)

RECURSIVE Pow2(_)
Pow2(k) == IF k <= 0 THEN 1 ELSE 2 * Pow2(k - 1)

\* number of decimal digits of x >= 1
RECURSIVE Digits(_)
Digits(x) == IF x < 10 THEN 1 ELSE 1 + Digits(x \div 10)

\* floor(log2 x) for x >= 1
RECURSIVE Log2Floor(_)
Log2Floor(x) == IF x < 2 THEN 0 ELSE 1 + Log2Floor(x \div 2)

\* <<n', k>> with n = n' * 10^k and n' not divisible by 10 (n # 0)
RECURSIVE StripTens(_, _)
StripTens(x, k) == IF x % 10 = 0 THEN StripTens(x \div 10, k + 1) ELSE <<x, k>>

\* <<q, r>> with a * mul = q * b + r, 0 <= r < b, for 0 <= a < b < 2^29:
\* floor(a * mul / b) by doubling, so that no product leaves 31 bits
RECURSIVE MulDivRem(_, _, _)
MulDivRem(a, mul, b) ==
    IF mul = 0 THEN <<0, 0>>
    ELSE LET h == MulDivRem(a, mul \div 2, b)
             r2 == 2 * h[2] + (IF mul % 2 = 1 THEN a ELSE 0)
             c == r2 \div b
         IN  <<2 * h[1] + c, r2 - c * b>>

MulDiv(a, mul, b) == MulDivRem(a, mul, b)[1]

----------------------------------------------------------------------------
(* JavaScript numbers *)

NaN == [k |-> "nan", n |-> 0, d |-> 1, e |-> 0]
PosInf == [k |-> "inf", n |-> 1, d |-> 1, e |-> 0]
NegInf == [k |-> "inf", n |-> -1, d |-> 1, e |-> 0]
Zero == [k |-> "fin", n |-> 0, d |-> 1, e |-> 0]

\* (n / d) * 10^e in canonical form, d > 0
Canon(n, d, e) ==
    IF n = 0 THEN Zero
    ELSE LET g == Gcd(AbsInt(n), d)
             sn == StripTens(AbsInt(n) \div g, 0)
             sd == StripTens(d \div g, 0)
         IN  [k |-> "fin", n |-> (IF n < 0 THEN -sn[1] ELSE sn[1]),
              d |-> sd[1], e |-> e + sn[2] - sd[2]]

Num(i) == Canon(i, 1, 0)
One == Num(1)

isFinite(x) == x.k = "fin"
IsNaN(x) == x.k = "nan"

\* -1, 0, 1 (NaN has no sign: callers test IsNaN first)
Sign(x) == IF x.n < 0 THEN -1 ELSE IF x.n > 0 THEN 1 ELSE 0

Neg(x) == IF x.k = "nan" THEN x ELSE [x EXCEPT !.n = -x.n]

\* Math.abs
Abs(x) == IF x.k = "nan" THEN x ELSE [x EXCEPT !.n = AbsInt(x.n)]

\* decimal order of a finite non-zero x: 10^(Mag-1) < |x| < 10^(Mag+1)
Mag(x) == x.e + Digits(AbsInt(x.n)) - Digits(x.d)

\* x < y for finite x, y > 0
LtPos(x, y) ==
    IF Mag(x) + 2 <= Mag(y) THEN TRUE
    ELSE IF Mag(y) + 2 <= Mag(x) THEN FALSE
    ELSE LET m == MinInt(x.e, y.e)
         IN  x.n * Pow10(x.e - m) * y.d < y.n * Pow10(y.e - m) * x.d

\* x < y for finite x, y
LtFin(x, y) ==
    IF Sign(x) # Sign(y) THEN Sign(x) < Sign(y)
    ELSE IF Sign(x) = 0 THEN FALSE
    ELSE IF Sign(x) > 0 THEN LtPos(x, y)
    ELSE LtPos(Abs(y), Abs(x))

\* the JavaScript comparisons: false as soon as one side is NaN
Lt(x, y) ==
    IF IsNaN(x) \/ IsNaN(y) THEN FALSE
    ELSE IF x.k = "inf" THEN x.n < 0 /\ ~(y.k = "inf" /\ y.n < 0)
    ELSE IF y.k = "inf" THEN y.n > 0
    ELSE LtFin(x, y)

Gt(x, y) == Lt(y, x)
\* x === y: the same value, whatever fraction and exponent denote it
\* (2/5 and 4 * 10^-1 are one number)
Eq(x, y) ==
    /\ ~IsNaN(x)
    /\ ~IsNaN(y)
    /\ \/ x = y
       \/ x.k = "fin" /\ y.k = "fin" /\ ~LtFin(x, y) /\ ~LtFin(y, x)
Le(x, y) == Lt(x, y) \/ Eq(x, y)
Ge(x, y) == Le(y, x)

\* binary64 range: half the smallest subnormal (2^-1075) and the largest
\* finite double (about 1.797693e308)
UnderflowLimit == Canon(247, 1, -326)
OverflowLimit == Canon(1797693, 1, 302)

\* a finite real rounded into the range of a double
Range(x) ==
    IF x.n = 0 THEN x
    ELSE IF LtPos(Abs(x), UnderflowLimit) THEN Zero
    ELSE IF LtPos(OverflowLimit, Abs(x)) THEN (IF x.n > 0 THEN PosInf ELSE NegInf)
    ELSE x

\* x + y
Add(x, y) ==
    IF IsNaN(x) \/ IsNaN(y) THEN NaN
    ELSE IF x.k = "inf" THEN (IF y.k = "inf" /\ y.n # x.n THEN NaN ELSE x)
    ELSE IF y.k = "inf" THEN y
    ELSE IF x.n = 0 THEN y
    ELSE IF y.n = 0 THEN x
    ELSE IF Mag(x) >= Mag(y) + 18 THEN x
    ELSE IF Mag(y) >= Mag(x) + 18 THEN y
    ELSE LET m == MinInt(x.e, y.e)
             g == Gcd(x.d, y.d)
             l == (x.d \div g) * y.d
             nx == x.n * Pow10(x.e - m) * (l \div x.d)
             ny == y.n * Pow10(y.e - m) * (l \div y.d)
         IN  Range(Canon(nx + ny, l, m))

Sub(x, y) == Add(x, Neg(y))

\* x / y
Div(x, y) ==
    IF IsNaN(x) \/ IsNaN(y) THEN NaN
    ELSE IF x.k = "inf"
         THEN (IF y.k = "inf" THEN NaN
               ELSE IF x.n * (IF y.n < 0 THEN -1 ELSE 1) > 0 THEN PosInf ELSE NegInf)
    ELSE IF y.k = "inf" THEN Zero
    ELSE IF y.n = 0
         THEN (IF x.n = 0 THEN NaN ELSE IF x.n > 0 THEN PosInf ELSE NegInf)
    ELSE IF x.n = 0 THEN Zero
    ELSE LET g1 == Gcd(AbsInt(x.n), AbsInt(y.n))
             g2 == Gcd(x.d, y.d)
             s == IF (x.n < 0) # (y.n < 0) THEN -1 ELSE 1
             nn == (AbsInt(x.n) \div g1) * (y.d \div g2)
             dd == (x.d \div g2) * (AbsInt(y.n) \div g1)
         IN  Range(Canon(s * nn, dd, x.e - y.e))

\* Math.max(x, y), Math.min(x, y): NaN as soon as one argument is NaN
Max2(x, y) == IF IsNaN(x) \/ IsNaN(y) THEN NaN ELSE IF Lt(x, y) THEN y ELSE x
Min2(x, y) == IF IsNaN(x) \/ IsNaN(y) THEN NaN ELSE IF Lt(y, x) THEN y ELSE x

----------------------------------------------------------------------------
(* Math.log *)

\* decimals kept by the model of Math.log; LnGuardDigits more are carried
\* inside the computation
LnDigits == 5
LnGuardDigits == 2
LnGuard == Pow10(LnDigits + LnGuardDigits)

\* a * mul / b to the nearest integer, 0 <= a < b
MulDivNear(a, mul, b) ==
    LET h == MulDivRem(a, mul, b)
    IN  IF 2 * h[2] >= b THEN h[1] + 1 ELSE h[1]

\* atanh(z) = z + z^3/3 + z^5/5 + ... for 0 <= z <= 1/3, z in units of 1/LnGuard
RECURSIVE AtanhTerms(_, _, _)
AtanhTerms(zpow, z2, i) ==
    IF zpow = 0 THEN 0
    ELSE ((2 * zpow + i) \div (2 * i))
         + AtanhTerms(MulDivNear(zpow, z2, LnGuard), z2, i + 2)

Atanh(z) == AtanhTerms(z, MulDivNear(z, z, LnGuard), 1)

\* Math.LN2 in units of 1/LnGuard
Ln2 == 6931472

\* ln p for an integer p >= 1, in units of 1/LnGuard:
\* p = 2^k (1 + f), ln p = k ln 2 + 2 atanh(f / (2 + f))
LnIntCalc(p) ==
    LET k == Log2Floor(p)
        sh == IF k >= 28 THEN Pow2(k - 27) ELSE 1
        a == (p \div sh) - (Pow2(k) \div sh)
        b == (p \div sh) + (Pow2(k) \div sh)
    IN  k * Ln2 + 2 * Atanh(MulDivNear(a, LnGuard, b))

\* the logarithms of the small integers are computed once
LnSmall == [p \in 1..64 |-> LnIntCalc(p)]
LnInt(p) == IF p \in DOMAIN LnSmall THEN LnSmall[p] ELSE LnIntCalc(p)

\* a guarded value rounded to LnDigits decimals
RoundGuard(v) ==
    LET g == Pow10(LnGuardDigits)
    IN  IF v >= 0 THEN (2 * v + g) \div (2 * g) ELSE -((g - 2 * v) \div (2 * g))

\* e * ln 10 to LnDigits decimals
LnPow10(e) ==
    LET g == Pow10(LnGuardDigits)
    IN  e * (LnInt(10) \div g) + RoundGuard(e * (LnInt(10) % g))

\* Math.log(x), in canonical form with LnDigits decimals
Log(x) ==
    IF IsNaN(x) THEN NaN
    ELSE IF x.n < 0 THEN NaN
    ELSE IF x.k = "inf" THEN PosInf
    ELSE IF x.n = 0 THEN NegInf
    ELSE Canon(RoundGuard(LnInt(x.n) - LnInt(x.d)) + LnPow10(x.e), 1, -LnDigits)

----------------------------------------------------------------------------
(* Outcomes of a function: a value or a thrown Error; the kinds of          *)
(* console.warn messages it issued on the way are kept beside it.           *)

NoError == [msg |-> "", a |-> 0, b |-> 0]
Error(msg, a, b) == [msg |-> msg, a |-> a, b |-> b]
Return(v, w) == [err |-> NoError, val |-> v, warns |-> w]
Throw(msg, a, b) == [err |-> Error(msg, a, b), val |-> <<>>, warns |-> {}]
Threw(r) == r.err # NoError

\* the default of the epsilon parameters, and the literal the entry points pass
Epsilon == Canon(1, 1, -10)
\* the tolerance of the weight-sum tests
SumTolerance == Canon(1, 1, -10)

\* matrix[0]?.length || 0
Row0Length(matrix) == IF Len(matrix) = 0 THEN 0 ELSE Len(matrix[1])

\* arr.reduce((sum, v) => sum + v, 0) over arr[1..k]
RECURSIVE SumTo(_, _)
SumTo(arr, k) == IF k = 0 THEN Zero ELSE Add(SumTo(arr, k - 1), arr[k])
Sum(arr) == SumTo(arr, Len(arr))

\* Math.min(...values), Math.max(...values) over values[1..k], k >= 1
RECURSIVE MinTo(_, _)
MinTo(values, k) == IF k = 1 THEN values[1] ELSE Min2(MinTo(values, k - 1), values[k])
RECURSIVE MaxTo(_, _)
MaxTo(values, k) == IF k = 1 THEN values[1] ELSE Max2(MaxTo(values, k - 1), values[k])


\* matrix[i][j]; an index past the end of the row reads undefined, which
\* every numeric operation treats as NaN
Cell(matrix, i, j) == IF j <= Len(matrix[i]) THEN matrix[i][j] ELSE NaN

\* matrix.map((row) => row[j])
Column(matrix, j) == [i \in 1..Len(matrix) |-> Cell(matrix, i, j)]

\* the first pair of a non-empty set of <<i, j>> in row-major order
FirstCell(cells) ==
    CHOOSE c \in cells : \A o \in cells : c[1] < o[1] \/ (c[1] = o[1] /\ c[2] <= o[2])

\* the first index in 1..k satisfying Bad, or 0
RECURSIVE FirstIn(_, _, _)
FirstIn(Bad(_), i, k) ==
    IF i > k THEN 0 ELSE IF Bad(i) THEN i ELSE FirstIn(Bad, i + 1, k)

----------------------------------------------------------------------------
(* MER-01  calculateDecisionMatrix, validateDecisionMatrix *)

\* the repair by the absolute value alone, which leaves a 0 in place
RepairValueAbsOnly(value) ==
    IF Le(value, Zero) THEN Abs(value) ELSE value

\* the repair of one raw value
RepairValue(value) ==
    IF Le(value, Zero) THEN Add(Abs(value), One) ELSE value

calculateDecisionMatrix(alternatives, criteria) ==
    LET m == Len(alternatives)
        n == Len(criteria)
        short(i) == Len(alternatives[i].values) # n
        bad == FirstIn(short, 1, m)
        repaired == {<<i, j>> \in (1..m) \X (1..n) :
                        Le(alternatives[i].values[j], Zero)}
    IN  IF m = 0 THEN Throw("Minimal satu alternatif harus disediakan", 0, 0)
        ELSE IF n = 0 THEN Throw("Minimal satu kriteria harus disediakan", 0, 0)
        ELSE IF bad # 0 THEN Throw("Alternative must have exactly n values", bad, n)
        ELSE Return([i \in 1..m |->
                        [j \in 1..n |-> RepairValue(alternatives[i].values[j])]],
                    IF repaired = {} THEN {} ELSE {"Nilai negatif atau nol ditemukan"})

validateDecisionMatrix(matrix, criteria) ==
    LET m == Len(matrix)
        n == Row0Length(matrix)
        cells == {<<i, j>> \in (1..m) \X (1..n) : Le(Cell(matrix, i, j), Zero)}
        first == FirstCell(cells)
    IN  IF m = 0 \/ n = 0 THEN Throw("Matriks keputusan tidak boleh kosong", 0, 0)
        ELSE IF n # Len(criteria)
             THEN Throw("Jumlah kolom matriks tidak sesuai dengan jumlah kriteria",
                        n, Len(criteria))
        ELSE IF cells # {}
             THEN Throw("Nilai matriks harus lebih besar dari 0", first[1] - 1, first[2] - 1)
        ELSE Return(<<>>, {})

----------------------------------------------------------------------------
(* MER-02  calculateNormalizedMatrix, validateNormalizedMatrix *)

\* one cell, with a benefit column normalized as x / max (the linear
\* normalization) instead of min / x
NormalizedValueLinearBenefit(matrix, criteriaType, i, j, epsilon) ==
    LET currentValue == Cell(matrix, i, j)
        columnValues == Column(matrix, j)
        minValue == MinTo(columnValues, Len(columnValues))
        maxValue == MaxTo(columnValues, Len(columnValues))
    IN  IF criteriaType = "benefit"
        THEN IF Le(minValue, Zero) THEN epsilon
             ELSE Div(Max2(currentValue, epsilon), maxValue)
        ELSE IF Eq(maxValue, Zero) THEN epsilon
             ELSE Div(Max2(currentValue, epsilon), maxValue)

\* one cell, divided without the epsilon floor on the current value
NormalizedValueUnclamped(matrix, criteriaType, i, j, epsilon) ==
    LET currentValue == Cell(matrix, i, j)
        columnValues == Column(matrix, j)
        minValue == MinTo(columnValues, Len(columnValues))
        maxValue == MaxTo(columnValues, Len(columnValues))
    IN  IF criteriaType = "benefit"
        THEN IF Le(minValue, Zero) THEN epsilon
             ELSE Div(minValue, currentValue)
        ELSE IF Eq(maxValue, Zero) THEN epsilon
             ELSE Div(currentValue, maxValue)

\* one cell, without the tests for a degenerate column
NormalizedValueNoFallback(matrix, criteriaType, i, j, epsilon) ==
    LET currentValue == Cell(matrix, i, j)
        columnValues == Column(matrix, j)
        minValue == MinTo(columnValues, Len(columnValues))
        maxValue == MaxTo(columnValues, Len(columnValues))
    IN  IF criteriaType = "benefit"
        THEN Div(minValue, Max2(currentValue, epsilon))
        ELSE Div(Max2(currentValue, epsilon), maxValue)

\* one cell, with the minimum and maximum taken over row i instead of column j
NormalizedValueRowMin(matrix, criteriaType, i, j, epsilon) ==
    LET currentValue == Cell(matrix, i, j)
        columnValues == matrix[i]
        minValue == MinTo(columnValues, Len(columnValues))
        maxValue == MaxTo(columnValues, Len(columnValues))
    IN  IF criteriaType = "benefit"
        THEN IF Le(minValue, Zero) THEN epsilon
             ELSE Div(minValue, Max2(currentValue, epsilon))
        ELSE IF Eq(maxValue, Zero) THEN epsilon
             ELSE Div(Max2(currentValue, epsilon), maxValue)

\* one cell of the normalized matrix
NormalizedValue(matrix, criteriaType, i, j, epsilon) ==
    LET currentValue == Cell(matrix, i, j)
        columnValues == Column(matrix, j)
        minValue == MinTo(columnValues, Len(columnValues))
        maxValue == MaxTo(columnValues, Len(columnValues))
    IN  IF criteriaType = "benefit"
        THEN IF Le(minValue, Zero) THEN epsilon
             ELSE Div(minValue, Max2(currentValue, epsilon))
        ELSE IF Eq(maxValue, Zero) THEN epsilon
             ELSE Div(Max2(currentValue, epsilon), maxValue)

\* the columns on which the normalizer warns and substitutes epsilon
DegenerateColumns(matrix, criteria) ==
    {j \in 1..Len(criteria) :
        LET columnValues == Column(matrix, j)
        IN  IF criteria[j].type = "benefit"
            THEN Le(MinTo(columnValues, Len(columnValues)), Zero)
            ELSE Eq(MaxTo(columnValues, Len(columnValues)), Zero)}

calculateNormalizedMatrix(matrix, criteria, epsilon) ==
    LET m == Len(matrix)
        n == Len(matrix[1])
        deg == DegenerateColumns(matrix, criteria)
    IN  IF m = 0 THEN Throw("TypeError: matrix[0] is undefined", 0, 0)
        ELSE IF n # Len(criteria)
        THEN Throw("Jumlah kolom matriks tidak sesuai dengan jumlah kriteria",
                   n, Len(criteria))
        ELSE Return([i \in 1..m |->
                        [j \in 1..n |->
                            NormalizedValue(matrix, criteria[j].type, i, j, epsilon)]],
                    {"Kriteria benefit memiliki nilai minimum <= 0" :
                        j \in {c \in deg : criteria[c].type = "benefit"}}
                    \cup {"Kriteria cost memiliki nilai maksimum 0" :
                        j \in {c \in deg : criteria[c].type # "benefit"}})

validateNormalizedMatrix(normalizedMatrix) ==
    LET m == Len(normalizedMatrix)
        n == Row0Length(normalizedMatrix)
        cells == {<<i, j>> \in (1..m) \X (1..n) :
                    LET value == Cell(normalizedMatrix, i, j)
                    IN  ~isFinite(value) \/ Le(value, Zero)}
        first == FirstCell(cells)
    IN  IF cells # {}
        THEN Throw("Nilai normalisasi tidak valid", first[1] - 1, first[2] - 1)
        ELSE Return(<<>>, {})

----------------------------------------------------------------------------
(* MER-03  calculateOverallPerformance, validateOverallPerformance *)

\* the term one normalized value adds to a sum of |ln|
AbsLnTerm(nx, epsilon) ==
    LET safeValue == Max2(nx, epsilon)
        absLnValue == Abs(Log(safeValue))
    IN  IF ~isFinite(absLnValue) THEN Abs(Log(epsilon)) ELSE absLnValue

\* sum of the terms of row[1..k], without index skip (0 skips none)
RECURSIVE SumAbsLn(_, _, _, _)
SumAbsLn(row, k, skip, epsilon) ==
    IF k = 0 THEN Zero
    ELSE IF k = skip THEN SumAbsLn(row, k - 1, skip, epsilon)
    ELSE Add(SumAbsLn(row, k - 1, skip, epsilon), AbsLnTerm(row[k], epsilon))

\* the rows holding a term that was replaced
HasNonFiniteLn(row, skip, epsilon) ==
    \E k \in 1..Len(row) :
        k # skip /\ ~isFinite(Abs(Log(Max2(row[k], epsilon))))

\* ln(1 + avg), 0 when that is not finite
LogPerformance(sumAbsLn, count) ==
    LET avgAbsLn == Div(sumAbsLn, Num(count))
        S_i == Log(Add(One, avgAbsLn))
    IN  IF ~isFinite(S_i) THEN Zero ELSE S_i

\* the average taken over the m alternatives, as the header comment of the
\* file writes it (1/m), and not over the n criteria
calculateOverallPerformanceOverM(normalizedMatrix, epsilon) ==
    LET m == Len(normalizedMatrix)
        n == Row0Length(normalizedMatrix)
        row(i) == [j \in 1..n |-> Cell(normalizedMatrix, i, j)]
        raw(i) == Log(Add(One, Div(SumAbsLn(row(i), n, 0, epsilon), Num(m))))
    IN  IF m = 0 \/ n = 0 THEN Throw("Matriks normalisasi tidak boleh kosong", 0, 0)
        ELSE Return([i \in 1..m |-> LogPerformance(SumAbsLn(row(i), n, 0, epsilon), m)],
                    (IF \E i \in 1..m : HasNonFiniteLn(row(i), 0, epsilon)
                     THEN {"Nilai ln tidak terbatas"} ELSE {})
                    \cup (IF \E i \in 1..m : ~isFinite(raw(i))
                          THEN {"Kinerja tidak terbatas"} ELSE {}))

calculateOverallPerformance(normalizedMatrix, epsilon) ==
    LET m == Len(normalizedMatrix)
        n == Row0Length(normalizedMatrix)
        row(i) == [j \in 1..n |-> Cell(normalizedMatrix, i, j)]
        raw(i) == Log(Add(One, Div(SumAbsLn(row(i), n, 0, epsilon), Num(n))))
    IN  IF m = 0 \/ n = 0 THEN Throw("Matriks normalisasi tidak boleh kosong", 0, 0)
        ELSE Return([i \in 1..m |-> LogPerformance(SumAbsLn(row(i), n, 0, epsilon), n)],
                    (IF \E i \in 1..m : HasNonFiniteLn(row(i), 0, epsilon)
                     THEN {"Nilai ln tidak terbatas"} ELSE {})
                    \cup (IF \E i \in 1..m : ~isFinite(raw(i))
                          THEN {"Kinerja tidak terbatas"} ELSE {}))

validateOverallPerformance(performances) ==
    LET bad(i) == ~isFinite(performances[i])
        first == FirstIn(bad, 1, Len(performances))
    IN  IF Len(performances) = 0
        THEN Throw("Array kinerja keseluruhan tidak boleh kosong", 0, 0)
        ELSE IF first # 0 THEN Throw("Kinerja keseluruhan tidak valid", first - 1, 0)
        ELSE Return(<<>>,
                    IF \E i \in 1..Len(performances) : Lt(performances[i], Zero)
                    THEN {"Kinerja keseluruhan negatif"} ELSE {})

----------------------------------------------------------------------------
(* MER-04  calculateRemovalPerformance, validateRemovalPerformance *)

\* S'_ij with the sum over k # j averaged over all n criteria
RemovalValueOverN(row, j, epsilon) ==
    LET n == Len(row)
        countWithoutJ == n - 1
    IN  IF countWithoutJ = 0 THEN Zero
        ELSE LogPerformance(SumAbsLn(row, n, j, epsilon), n)

\* S'_ij summed over the criteria after j only (k > j instead of k !== j)
RemovalValueSkipsUpToJ(row, j, epsilon) ==
    LET n == Len(row)
        countWithoutJ == n - j
        terms == [k \in 1..countWithoutJ |-> AbsLnTerm(row[j + k], epsilon)]
    IN  IF countWithoutJ = 0 THEN Zero
        ELSE LogPerformance(Sum(terms), countWithoutJ)

\* S'_ij: the performance of one row with criterion j left out
RemovalValue(row, j, epsilon) ==
    LET n == Len(row)
        countWithoutJ == n - 1
    IN  IF countWithoutJ = 0 THEN Zero
        ELSE LogPerformance(SumAbsLn(row, n, j, epsilon), countWithoutJ)

calculateRemovalPerformance(normalizedMatrix, epsilon) ==
    LET m == Len(normalizedMatrix)
        n == Row0Length(normalizedMatrix)
        row(i) == [j \in 1..n |-> Cell(normalizedMatrix, i, j)]
    IN  IF m = 0 \/ n = 0 THEN Throw("Matriks normalisasi tidak boleh kosong", 0, 0)
        ELSE Return([i \in 1..m |-> [j \in 1..n |-> RemovalValue(row(i), j, epsilon)]],
                    (IF n = 1 THEN {"Hanya ada 1 kriteria"} ELSE {})
                    \cup (IF \E i \in 1..m, j \in 1..n : HasNonFiniteLn(row(i), j, epsilon)
                          THEN {"Nilai ln tidak terbatas pada removal"} ELSE {}))

validateRemovalPerformance(removalPerformances) ==
    LET m == Len(removalPerformances)
        n == Row0Length(removalPerformances)
        ragged(i) == Len(removalPerformances[i]) # n
        firstRagged == FirstIn(ragged, 1, m)
        cells == {<<i, j>> \in (1..m) \X (1..n) :
                    ~isFinite(Cell(removalPerformances, i, j))}
        first == FirstCell(cells)
    IN  IF m = 0 THEN Throw("Matriks kinerja removal tidak boleh kosong", 0, 0)
        ELSE IF firstRagged # 0
                /\ (cells = {} \/ firstRagged <= first[1])
             THEN Throw("Panjang baris tidak konsisten dalam matriks kinerja removal",
                        firstRagged - 1, 0)
        ELSE IF cells # {}
             THEN Throw("Kinerja removal tidak valid", first[1] - 1, first[2] - 1)
        ELSE Return(<<>>,
                    IF \E i \in 1..m, j \in 1..n : Lt(removalPerformances[i][j], Zero)
                    THEN {"Kinerja removal negatif"} ELSE {})

----------------------------------------------------------------------------
(* MER-05  calculateAbsoluteDeviations, validateAbsoluteDeviations *)

\* a non-finite value is read as 0
Safe(x) == IF isFinite(x) THEN x ELSE Zero

\* the sum of the differences S'_ij - S_i taken without Math.abs
RECURSIVE DeviationToSigned(_, _, _, _)
DeviationToSigned(performances, removalPerformances, j, k) ==
    IF k = 0 THEN Zero
    ELSE Add(DeviationToSigned(performances, removalPerformances, j, k - 1),
             Sub(Safe(Cell(removalPerformances, k, j)), Safe(performances[k])))

\* sum over i in 1..k of |S'_ij - S_i|
RECURSIVE DeviationTo(_, _, _, _)
DeviationTo(performances, removalPerformances, j, k) ==
    IF k = 0 THEN Zero
    ELSE Add(DeviationTo(performances, removalPerformances, j, k - 1),
             Abs(Sub(Safe(Cell(removalPerformances, k, j)), Safe(performances[k]))))

\* the row counts compared before the performance vector is tested for
\* emptiness
calculateAbsoluteDeviationsRowsFirst(performances, removalPerformances) ==
    LET m == Len(performances)
        n == Row0Length(removalPerformances)
        E(j) == DeviationTo(performances, removalPerformances, j, m)
    IN  IF Len(removalPerformances) # m
        THEN Throw("Jumlah baris matriks removal tidak sesuai dengan jumlah alternatif",
                   Len(removalPerformances), m)
        ELSE IF m = 0 THEN Throw("Array kinerja keseluruhan tidak boleh kosong", 0, 0)
        ELSE IF n = 0 THEN Throw("Matriks kinerja removal tidak boleh kosong", 0, 0)
        ELSE Return([j \in 1..n |-> IF ~isFinite(E(j)) THEN Zero ELSE E(j)], {})

\* E_j returned as summed, without the replacement of a non-finite sum by 0
calculateAbsoluteDeviationsKeepsInfinite(performances, removalPerformances) ==
    LET m == Len(performances)
        n == Row0Length(removalPerformances)
        E(j) == DeviationTo(performances, removalPerformances, j, m)
    IN  IF m = 0 THEN Throw("Array kinerja keseluruhan tidak boleh kosong", 0, 0)
        ELSE IF Len(removalPerformances) # m
             THEN Throw("Jumlah baris matriks removal tidak sesuai dengan jumlah alternatif",
                        Len(removalPerformances), m)
        ELSE IF n = 0 THEN Throw("Matriks kinerja removal tidak boleh kosong", 0, 0)
        ELSE Return([j \in 1..n |-> E(j)], {})

calculateAbsoluteDeviations(performances, removalPerformances) ==
    LET m == Len(performances)
        n == Row0Length(removalPerformances)
        E(j) == DeviationTo(performances, removalPerformances, j, m)
    IN  IF m = 0 THEN Throw("Array kinerja keseluruhan tidak boleh kosong", 0, 0)
        ELSE IF Len(removalPerformances) # m
             THEN Throw("Jumlah baris matriks removal tidak sesuai dengan jumlah alternatif",
                        Len(removalPerformances), m)
        ELSE IF n = 0 THEN Throw("Matriks kinerja removal tidak boleh kosong", 0, 0)
        ELSE Return([j \in 1..n |-> IF ~isFinite(E(j)) THEN Zero ELSE E(j)],
                    (IF \E i \in 1..m : ~isFinite(performances[i])
                     THEN {"Kinerja keseluruhan tidak terbatas"} ELSE {})
                    \cup (IF \E i \in 1..m, j \in 1..n :
                                ~isFinite(Cell(removalPerformances, i, j))
                          THEN {"Kinerja removal tidak terbatas"} ELSE {})
                    \cup (IF \E j \in 1..n : ~isFinite(E(j))
                          THEN {"Deviasi absolut tidak terbatas"} ELSE {}))

validateAbsoluteDeviations(deviations) ==
    LET bad(j) == ~isFinite(deviations[j]) \/ Lt(deviations[j], Zero)
        first == FirstIn(bad, 1, Len(deviations))
    IN  IF Len(deviations) = 0 THEN Throw("Array deviasi absolut tidak boleh kosong", 0, 0)
        ELSE IF first # 0 /\ ~isFinite(deviations[first])
             THEN Throw("Deviasi absolut tidak valid", first - 1, 0)
        ELSE IF first # 0
             THEN Throw("Deviasi absolut tidak boleh negatif", first - 1, 0)
        ELSE Return(<<>>, {})

----------------------------------------------------------------------------
(* MER-06  calculateFinalWeights, validateFinalWeights *)

\* new Array(n).fill(1)
EqualWeightsUnnormalized(n) == [j \in 1..n |-> One]

\* new Array(n).fill(1 / n)
EqualWeights(n) == [j \in 1..n |-> Div(One, Num(n))]

\* |sum - 1| > 1e-10
SumOff(total) == Gt(Abs(Sub(total, One)), SumTolerance)

\* the weights computed as E_j / total also when the total is 0 or not finite
calculateFinalWeightsNoFallback(deviations) ==
    LET n == Len(deviations)
        totalDeviations == Sum(deviations)
        weights == [j \in 1..n |->
                        IF ~isFinite(deviations[j]) THEN Zero
                        ELSE Div(Abs(deviations[j]), totalDeviations)]
        totalWeights == Sum(weights)
    IN  IF n = 0 THEN Throw("Array deviasi absolut tidak boleh kosong", 0, 0)
        ELSE IF SumOff(totalWeights)
             THEN Return(IF Gt(totalWeights, Zero)
                         THEN [j \in 1..n |-> Div(weights[j], totalWeights)]
                         ELSE EqualWeights(n), {})
        ELSE Return(weights, {})

calculateFinalWeights(deviations) ==
    LET n == Len(deviations)
        totalDeviations == Sum(deviations)
        weights == [j \in 1..n |->
                        IF ~isFinite(deviations[j]) THEN Zero
                        ELSE Div(Abs(deviations[j]), totalDeviations)]
        totalWeights == Sum(weights)
        warnEach == (IF \E j \in 1..n : ~isFinite(deviations[j])
                     THEN {"Deviasi tidak terbatas"} ELSE {})
                    \cup (IF \E j \in 1..n : Lt(deviations[j], Zero)
                          THEN {"Deviasi negatif"} ELSE {})
    IN  IF n = 0 THEN Throw("Array deviasi absolut tidak boleh kosong", 0, 0)
        ELSE IF Eq(totalDeviations, Zero) \/ ~isFinite(totalDeviations)
             THEN Return(EqualWeights(n), {"Total deviasi adalah 0 atau tidak terbatas"})
        ELSE IF SumOff(totalWeights)
             THEN Return(IF Gt(totalWeights, Zero)
                         THEN [j \in 1..n |-> Div(weights[j], totalWeights)]
                         ELSE EqualWeights(n),
                         warnEach \cup {"Total bobot tidak sama dengan 1"})
        ELSE Return(weights, warnEach)

validateFinalWeights(weights) ==
    LET bad(j) == ~isFinite(weights[j]) \/ Lt(weights[j], Zero) \/ Gt(weights[j], One)
        first == FirstIn(bad, 1, Len(weights))
        totalWeight == Sum(weights)
    IN  IF Len(weights) = 0 THEN Throw("Array bobot tidak boleh kosong", 0, 0)
        ELSE IF first # 0 /\ ~isFinite(weights[first])
             THEN Throw("Bobot tidak valid", first - 1, 0)
        ELSE IF first # 0 /\ Lt(weights[first], Zero)
             THEN Throw("Bobot tidak boleh negatif", first - 1, 0)
        ELSE IF first # 0 THEN Throw("Bobot tidak boleh lebih dari 1", first - 1, 0)
        ELSE IF SumOff(totalWeight) THEN Throw("Total bobot harus sama dengan 1", 0, 0)
        ELSE Return(<<>>, {})

----------------------------------------------------------------------------
(* The entry points: Merec.CalculateWeight and calculateMerecWeights *)

VARIABLES
    pc,                   \* position of the call in progress
    entry,                \* "CalculateWeight" or "calculateMerecWeights"
    matrix,               \* the caller's matrix
    criteriaTypes,        \* the caller's criteriaTypes
    epsilonArg,           \* a third argument passed by the caller (<<>>: none)
    decisionMatrix,
    normalizedMatrix,
    overallPerformances,
    removalPerformances,
    absoluteDeviations,
    finalWeights,
    consoleLog,           \* the global console.log
    consoleWarn,          \* the global console.warn
    originalConsoleLog,   \* the handlers the call saved
    originalConsoleWarn,
    warned,               \* kinds of messages given to console.warn by this call
    error,                \* the Error thrown by this call
    result                \* the vector returned by this call

locals == <<decisionMatrix, normalizedMatrix, overallPerformances,
            removalPerformances, absoluteDeviations, finalWeights>>
console == <<consoleLog, consoleWarn>>
saved == <<originalConsoleLog, originalConsoleWarn>>
input == <<entry, matrix, criteriaTypes, epsilonArg>>
vars == <<pc, input, locals, console, saved, warned, error, result>>

\* bounds of the inputs: rows and columns of the matrices whose cells are
\* enumerated, and rows of the matrices used for the shape tests
MaxRows == 2
MaxCols == 3
MaxShapeRows == 3

\* rows and columns of the matrices whose columns are permuted
MaxPermRows == 2
MaxPermCols == 3

EntryPoints == {"CalculateWeight", "calculateMerecWeights"}
CriteriaTypes == {"benefit", "cost"}

\* the handlers of the global console object
NativeLog == "console.log"
NativeWarn == "console.warn"
Noop == "() => {}"

\* raw cell values: ordinary ones (positive, zero, negative), the ends of
\* the number line, and positive values below epsilon
Tiny == Canon(1, 1, -200)
Huge == Canon(1, 1, 200)
OrdinaryCells == <<Num(2), Num(3), Num(-1), Num(0), Num(5)>>
ExtremeCells == <<Num(1), Tiny, Huge, NaN, PosInf>>
SmallCells == <<Num(1), Canon(1, 1, -11), Num(2), Canon(4, 1, -11), Num(3)>>
CellClasses == {OrdinaryCells, ExtremeCells, SmallCells}

\* the m x n matrix whose cell (i, j) is cells[a i + b j + s], indices
\* taken cyclically
GenMatrix(cells, m, n, a, b, s) ==
    [i \in 1..m |->
        [j \in 1..n |-> cells[((a * (i - 1) + b * (j - 1) + s) % Len(cells)) + 1]]]

Strides == 0..1
Offsets == 0..4

MatricesOf(classes) ==
    {GenMatrix(c, m, n, a, b, s) :
        c \in classes, m \in 1..MaxRows, n \in 1..MaxCols,
        a \in Strides, b \in Strides, s \in Offsets}

RectMatrices == MatricesOf(CellClasses)
EpsilonMatrices == MatricesOf({SmallCells})

\* third arguments a caller may pass
EpsilonArgs == {Zero, Canon(1, 1, -12)}

\* matrices of any row lengths (the cell values play no part in the shape tests)
ShapeMatrices ==
    UNION {{[i \in 1..m |-> [j \in 1..lens[i] |-> One]] :
                lens \in [1..m -> 0..MaxCols]} : m \in 0..MaxShapeRows}

TypeLists == UNION {[1..n -> CriteriaTypes] : n \in 0..MaxCols}

\* type lists of every length (the types play no part in the shape tests)
ShapeTypeLists == {[j \in 1..n |-> "benefit"] : n \in 0..MaxCols}

\* the objects the entry points build from their arguments
Alternatives(mx) == [i \in 1..Len(mx) |-> [values |-> mx[i]]]
Criteria(types) == [j \in 1..Len(types) |-> [type |-> types[j]]]

Init ==
    /\ pc = "idle"
    /\ entry = "CalculateWeight"
    /\ matrix = <<>>
    /\ criteriaTypes = <<>>
    /\ epsilonArg = <<>>
    /\ decisionMatrix = <<>>
    /\ normalizedMatrix = <<>>
    /\ overallPerformances = <<>>
    /\ removalPerformances = <<>>
    /\ absoluteDeviations = <<>>
    /\ finalWeights = <<>>
    /\ consoleLog = NativeLog
    /\ consoleWarn = NativeWarn
    /\ originalConsoleLog = "unset"
    /\ originalConsoleWarn = "unset"
    /\ warned = {}
    /\ error = NoError
    /\ result = <<>>

\* the input checks with criteriaTypes examined before the matrix
ValidateInputTypesFirst(mx, types) ==
    LET m == Len(mx)
        n == Row0Length(mx)
        short(i) == Len(mx[i]) # n
        bad == FirstIn(short, 1, m)
    IN  IF Len(types) = 0 THEN Error("Tipe kriteria tidak boleh kosong", 0, 0)
        ELSE IF m = 0 THEN Error("Matrix tidak boleh kosong", 0, 0)
        ELSE IF n # Len(types)
             THEN Error("Jumlah kolom matrix harus sama dengan jumlah tipe kriteria",
                        n, Len(types))
        ELSE IF bad # 0 THEN Error("Baris harus memiliki kolom", bad, n)
        ELSE NoError

\* the input checks with the loop over the rows ahead of the column count
ValidateInputRowsFirst(mx, types) ==
    LET m == Len(mx)
        n == Row0Length(mx)
        short(i) == Len(mx[i]) # n
        bad == FirstIn(short, 1, m)
    IN  IF m = 0 THEN Error("Matrix tidak boleh kosong", 0, 0)
        ELSE IF Len(types) = 0 THEN Error("Tipe kriteria tidak boleh kosong", 0, 0)
        ELSE IF bad # 0 THEN Error("Baris harus memiliki kolom", bad, n)
        ELSE IF n # Len(types)
             THEN Error("Jumlah kolom matrix harus sama dengan jumlah tipe kriteria",
                        n, Len(types))
        ELSE NoError

\* the input checks with the row named by its index i, not by i + 1
ValidateInputRowIndex(mx, types) ==
    LET m == Len(mx)
        n == Row0Length(mx)
        short(i) == Len(mx[i]) # n
        bad == FirstIn(short, 1, m)
    IN  IF m = 0 THEN Error("Matrix tidak boleh kosong", 0, 0)
        ELSE IF Len(types) = 0 THEN Error("Tipe kriteria tidak boleh kosong", 0, 0)
        ELSE IF n # Len(types)
             THEN Error("Jumlah kolom matrix harus sama dengan jumlah tipe kriteria",
                        n, Len(types))
        ELSE IF bad # 0 THEN Error("Baris harus memiliki kolom", bad - 1, n)
        ELSE NoError

\* the input checks of the entry points
ValidateInput(mx, types) ==
    LET m == Len(mx)
        n == Row0Length(mx)
        short(i) == Len(mx[i]) # n
        bad == FirstIn(short, 1, m)
    IN  IF m = 0 THEN Error("Matrix tidak boleh kosong", 0, 0)
        ELSE IF Len(types) = 0 THEN Error("Tipe kriteria tidak boleh kosong", 0, 0)
        ELSE IF n # Len(types)
             THEN Error("Jumlah kolom matrix harus sama dengan jumlah tipe kriteria",
                        n, Len(types))
        ELSE IF bad # 0 THEN Error("Baris harus memiliki kolom", bad, n)
        ELSE NoError

\* a call is entered with its arguments and checks them
\* the static method testing the criteria types before the matrix, unlike
\* the free function
CallMethodChecksTypesFirst(ep, mx, types, eps) ==
    LET checked == IF ep = "CalculateWeight"
                   THEN ValidateInputTypesFirst(mx, types)
                   ELSE ValidateInput(mx, types)
    IN  /\ pc = "idle"
        /\ entry' = ep
        /\ matrix' = mx
        /\ criteriaTypes' = types
        /\ epsilonArg' = eps
        /\ decisionMatrix' = <<>>
        /\ normalizedMatrix' = <<>>
        /\ overallPerformances' = <<>>
        /\ removalPerformances' = <<>>
        /\ absoluteDeviations' = <<>>
        /\ finalWeights' = <<>>
        /\ originalConsoleLog' = "unset"
        /\ originalConsoleWarn' = "unset"
        /\ warned' = {}
        /\ result' = <<>>
        /\ error' = checked
        /\ pc' = IF checked = NoError THEN "suppress" ELSE "thrown"
        /\ UNCHANGED console

Call(ep, mx, types, eps) ==
    /\ pc = "idle"
    /\ entry' = ep
    /\ matrix' = mx
    /\ criteriaTypes' = types
    /\ epsilonArg' = eps
    /\ decisionMatrix' = <<>>
    /\ normalizedMatrix' = <<>>
    /\ overallPerformances' = <<>>
    /\ removalPerformances' = <<>>
    /\ absoluteDeviations' = <<>>
    /\ finalWeights' = <<>>
    /\ originalConsoleLog' = "unset"
    /\ originalConsoleWarn' = "unset"
    /\ warned' = {}
    /\ result' = <<>>
    /\ error' = ValidateInput(mx, types)
    /\ pc' = IF ValidateInput(mx, types) = NoError THEN "suppress" ELSE "thrown"
    /\ UNCHANGED console

CallRect ==
    /\ pc = "idle"
    /\ \E ep \in EntryPoints, mx \in RectMatrices, types \in TypeLists :
          /\ Len(types) = Len(mx[1])
          /\ Call(ep, mx, types, <<>>)

CallShape ==
    /\ pc = "idle"
    /\ \E ep \in EntryPoints, mx \in ShapeMatrices, types \in ShapeTypeLists :
          /\ ValidateInput(mx, types) # NoError
          /\ Call(ep, mx, types, <<>>)

\* the matrix and the types of the README's example and of the package's test
Fixture ==
    << <<Num(8), Num(7), Num(6), Num(5)>>,
       <<Num(6), Num(8), Num(7), Num(6)>>,
       <<Num(7), Num(6), Num(8), Num(7)>>,
       <<Num(5), Num(9), Num(5), Num(8)>> >>
FixtureTypes == <<"benefit", "benefit", "cost", "benefit">>

CallFixture ==
    /\ pc = "idle"
    /\ \E ep \in EntryPoints : Call(ep, Fixture, FixtureTypes, <<>>)

\* a call with a third argument, as the README documents it
CallEpsilon ==
    /\ pc = "idle"
    /\ \E mx \in EpsilonMatrices, types \in TypeLists, eps \in EpsilonArgs :
          /\ Len(types) = Len(mx[1])
          /\ Call("calculateMerecWeights", mx, types, <<eps>>)

\* const originalConsoleLog = console.log; ... console.warn = () => {}
Suppress ==
    /\ pc = "suppress"
    /\ originalConsoleLog' = consoleLog
    /\ originalConsoleWarn' = consoleWarn
    /\ consoleLog' = Noop
    /\ consoleWarn' = Noop
    /\ pc' = "mer01"
    /\ UNCHANGED <<input, locals, warned, error, result>>

\* a step of a try block that swallows the error and goes on
StepIgnoresThrow(here, next, r) ==
    /\ pc = here
    /\ warned' = warned \cup r.warns
    /\ error' = r.err
    /\ pc' = next
    /\ UNCHANGED <<input, console, saved, result>>

\* a step whose throw leaves the call without passing through finally
StepThrowSkipsFinally(here, next, r) ==
    /\ pc = here
    /\ warned' = warned \cup r.warns
    /\ error' = r.err
    /\ pc' = IF Threw(r) THEN "thrown" ELSE next
    /\ UNCHANGED <<input, console, saved, result>>

\* a step of the try block: r is the outcome of the function called
Step(here, next, r) ==
    /\ pc = here
    /\ warned' = warned \cup r.warns
    /\ error' = r.err
    /\ pc' = IF Threw(r) THEN "finally" ELSE next
    /\ UNCHANGED <<input, console, saved, result>>

\* MER-01 writing the repaired value back into alternative.values[j], which
\* is the caller's row (values: row)
Mer01RepairsInPlace ==
    LET r == calculateDecisionMatrix(Alternatives(matrix), Criteria(criteriaTypes))
    IN  /\ pc = "mer01"
        /\ warned' = warned \cup r.warns
        /\ error' = r.err
        /\ pc' = IF Threw(r) THEN "finally" ELSE "val01"
        /\ decisionMatrix' = r.val
        /\ matrix' = IF Threw(r) THEN matrix ELSE r.val
        /\ UNCHANGED <<entry, criteriaTypes, epsilonArg, console, saved, result>>
        /\ UNCHANGED <<normalizedMatrix, overallPerformances, removalPerformances,
                       absoluteDeviations, finalWeights>>

Mer01 ==
    LET r == calculateDecisionMatrix(Alternatives(matrix), Criteria(criteriaTypes))
    IN  /\ Step("mer01", "val01", r)
        /\ decisionMatrix' = r.val
        /\ UNCHANGED <<normalizedMatrix, overallPerformances, removalPerformances,
                       absoluteDeviations, finalWeights>>

Val01 ==
    /\ Step("val01", "mer02", validateDecisionMatrix(decisionMatrix, Criteria(criteriaTypes)))
    /\ UNCHANGED locals

Mer02 ==
    LET r == calculateNormalizedMatrix(decisionMatrix, Criteria(criteriaTypes), Epsilon)
    IN  /\ Step("mer02", "val02", r)
        /\ normalizedMatrix' = r.val
        /\ UNCHANGED <<decisionMatrix, overallPerformances, removalPerformances,
                       absoluteDeviations, finalWeights>>

Val02 ==
    /\ Step("val02", "mer03", validateNormalizedMatrix(normalizedMatrix))
    /\ UNCHANGED locals

Mer03 ==
    LET r == calculateOverallPerformance(normalizedMatrix, Epsilon)
    IN  /\ Step("mer03", "val03", r)
        /\ overallPerformances' = r.val
        /\ UNCHANGED <<decisionMatrix, normalizedMatrix, removalPerformances,
                       absoluteDeviations, finalWeights>>

Val03 ==
    /\ Step("val03", "mer04", validateOverallPerformance(overallPerformances))
    /\ UNCHANGED locals

Mer04 ==
    LET r == calculateRemovalPerformance(normalizedMatrix, Epsilon)
    IN  /\ Step("mer04", "val04", r)
        /\ removalPerformances' = r.val
        /\ UNCHANGED <<decisionMatrix, normalizedMatrix, overallPerformances,
                       absoluteDeviations, finalWeights>>

Val04 ==
    /\ Step("val04", "mer05", validateRemovalPerformance(removalPerformances))
    /\ UNCHANGED locals

Mer05 ==
    LET r == calculateAbsoluteDeviations(overallPerformances, removalPerformances)
    IN  /\ Step("mer05", "val05", r)
        /\ absoluteDeviations' = r.val
        /\ UNCHANGED <<decisionMatrix, normalizedMatrix, overallPerformances,
                       removalPerformances, finalWeights>>

Val05 ==
    /\ Step("val05", "mer06", validateAbsoluteDeviations(absoluteDeviations))
    /\ UNCHANGED locals

Mer06 ==
    LET r == calculateFinalWeights(absoluteDeviations)
    IN  /\ Step("mer06", "val06", r)
        /\ finalWeights' = r.val
        /\ UNCHANGED <<decisionMatrix, normalizedMatrix, overallPerformances,
                       removalPerformances, absoluteDeviations>>

\* validateFinalWeights, then "return finalWeights" enters the finally block
Val06 ==
    /\ Step("val06", "finally", validateFinalWeights(finalWeights))
    /\ UNCHANGED locals

\* the finally block with "return absoluteDeviations" in the try block
FinallyReturnsDeviations ==
    /\ pc = "finally"
    /\ consoleLog' = originalConsoleLog
    /\ consoleWarn' = originalConsoleWarn
    /\ pc' = IF error = NoError THEN "returned" ELSE "thrown"
    /\ result' = IF error = NoError THEN absoluteDeviations ELSE <<>>
    /\ UNCHANGED <<input, locals, saved, warned, error>>

\* the finally block without the line that restores console.warn
FinallyKeepsWarnSuppressed ==
    /\ pc = "finally"
    /\ consoleLog' = originalConsoleLog
    /\ consoleWarn' = consoleWarn
    /\ pc' = IF error = NoError THEN "returned" ELSE "thrown"
    /\ result' = IF error = NoError THEN finalWeights ELSE <<>>
    /\ UNCHANGED <<input, locals, saved, warned, error>>

\* finally { console.log = originalConsoleLog; console.warn = originalConsoleWarn }
\* and the call leaves with its value or its error
Finally ==
    /\ pc = "finally"
    /\ consoleLog' = originalConsoleLog
    /\ consoleWarn' = originalConsoleWarn
    /\ pc' = IF error = NoError THEN "returned" ELSE "thrown"
    /\ result' = IF error = NoError THEN finalWeights ELSE <<>>
    /\ UNCHANGED <<input, locals, saved, warned, error>>

\* the caller has the value or the error, and the frame of the call is gone
Leave ==
    /\ pc \in {"returned", "thrown"}
    /\ pc' = "idle"
    /\ entry' = "CalculateWeight"
    /\ matrix' = <<>>
    /\ criteriaTypes' = <<>>
    /\ epsilonArg' = <<>>
    /\ decisionMatrix' = <<>>
    /\ normalizedMatrix' = <<>>
    /\ overallPerformances' = <<>>
    /\ removalPerformances' = <<>>
    /\ absoluteDeviations' = <<>>
    /\ finalWeights' = <<>>
    /\ originalConsoleLog' = "unset"
    /\ originalConsoleWarn' = "unset"
    /\ warned' = {}
    /\ error' = NoError
    /\ result' = <<>>
    /\ UNCHANGED console

Pipeline ==
    \/ Suppress
    \/ Mer01 \/ Val01 \/ Mer02 \/ Val02 \/ Mer03 \/ Val03
    \/ Mer04 \/ Val04 \/ Mer05 \/ Val05 \/ Mer06 \/ Val06
    \/ Finally
    \/ Leave

Next == CallRect \/ CallShape \/ CallFixture \/ CallEpsilon \/ Pipeline

Spec == Init /\ [][Next]_vars

\* ---------------------------------------------------------------------
\* Calls of Merec.CalculateWeight on matrices whose columns can be told
\* apart: the cells change along the rows and along the columns, and every
\* assignment of the tags is taken

PermMatrices ==
    {GenMatrix(c, m, n, 1, 1, s) :
        c \in CellClasses, m \in 1..MaxPermRows, n \in 1..MaxPermCols,
        s \in Offsets}

CallPermutable ==
    /\ pc = "idle"
    /\ \E mx \in PermMatrices :
          \E types \in [1..Len(mx[1]) -> CriteriaTypes] :
              Call("CalculateWeight", mx, types, <<>>)

PermNext == CallPermutable \/ CallFixture \/ Pipeline

PermSpec == Init /\ [][PermNext]_vars

\* the body shared, line for line, by calculateMerecWeights and
\* Merec.CalculateWeight, as one function of the two arguments: the error
\* thrown, or the weights returned
PipelineOutcome(mx, types) ==
    LET checked == ValidateInput(mx, types)
        criteria == Criteria(types)
        r1 == calculateDecisionMatrix(Alternatives(mx), criteria)
        v1 == validateDecisionMatrix(r1.val, criteria)
        r2 == calculateNormalizedMatrix(r1.val, criteria, Epsilon)
        v2 == validateNormalizedMatrix(r2.val)
        r3 == calculateOverallPerformance(r2.val, Epsilon)
        v3 == validateOverallPerformance(r3.val)
        r4 == calculateRemovalPerformance(r2.val, Epsilon)
        v4 == validateRemovalPerformance(r4.val)
        r5 == calculateAbsoluteDeviations(r3.val, r4.val)
        v5 == validateAbsoluteDeviations(r5.val)
        r6 == calculateFinalWeights(r5.val)
        v6 == validateFinalWeights(r6.val)
        thrown(e) == [err |-> e, val |-> <<>>]
    IN  IF checked # NoError THEN thrown(checked)
        ELSE IF Threw(r1) THEN thrown(r1.err)
        ELSE IF Threw(v1) THEN thrown(v1.err)
        ELSE IF Threw(r2) THEN thrown(r2.err)
        ELSE IF Threw(v2) THEN thrown(v2.err)
        ELSE IF Threw(r3) THEN thrown(r3.err)
        ELSE IF Threw(v3) THEN thrown(v3.err)
        ELSE IF Threw(r4) THEN thrown(r4.err)
        ELSE IF Threw(v4) THEN thrown(v4.err)
        ELSE IF Threw(r5) THEN thrown(r5.err)
        ELSE IF Threw(v5) THEN thrown(v5.err)
        ELSE IF Threw(r6) THEN thrown(r6.err)
        ELSE IF Threw(v6) THEN thrown(v6.err)
        ELSE [err |-> NoError, val |-> r6.val]


----------------------------------------------------------------------------
(* The stage functions called on their own.  They are exported by their     *)
(* modules and take any number[][]; the variables hold the arguments and    *)
(* the value of the call: decisionMatrix is the argument of the normalizer, *)
(* normalizedMatrix its value and the argument of the two scorers.          *)

\* values a caller passes for the epsilon parameter
StageEpsilons == {Epsilon, Canon(1, 1, -12)}
\* the same with 0, which makes ln(epsilon) infinite
PerformanceEpsilons == StageEpsilons \cup {Zero}

\* calculateNormalizedMatrix(mx, criteria, eps)
DirectNormalize ==
    /\ pc = "idle"
    /\ \E mx \in RectMatrices, types \in TypeLists, eps \in StageEpsilons :
          LET r == calculateNormalizedMatrix(mx, Criteria(types), eps)
          IN  /\ Len(types) = Len(mx[1])
              /\ entry' = "calculateNormalizedMatrix"
              /\ decisionMatrix' = mx
              /\ criteriaTypes' = types
              /\ epsilonArg' = <<eps>>
              /\ normalizedMatrix' = r.val
              /\ warned' = r.warns
              /\ error' = r.err
              /\ pc' = "normalized"
    /\ UNCHANGED <<matrix, overallPerformances, removalPerformances,
                   absoluteDeviations, finalWeights, console, saved, result>>

\* validateNormalizedMatrix on the value of calculateNormalizedMatrix
DirectValidateNormalized ==
    /\ pc = "normalized"
    /\ error = NoError
    /\ error' = validateNormalizedMatrix(normalizedMatrix).err
    /\ pc' = "validated"
    /\ UNCHANGED <<input, locals, console, saved, warned, result>>

\* calculateOverallPerformance(mx, eps)
DirectOverall ==
    /\ pc = "idle"
    /\ \E mx \in RectMatrices, eps \in PerformanceEpsilons :
          LET r == calculateOverallPerformance(mx, eps)
          IN  /\ entry' = "calculateOverallPerformance"
              /\ normalizedMatrix' = mx
              /\ epsilonArg' = <<eps>>
              /\ overallPerformances' = r.val
              /\ warned' = r.warns
              /\ error' = r.err
              /\ pc' = "performed"
    /\ UNCHANGED <<matrix, criteriaTypes, decisionMatrix, removalPerformances,
                   absoluteDeviations, finalWeights, console, saved, result>>

\* calculateRemovalPerformance(mx, eps)
DirectRemoval ==
    /\ pc = "idle"
    /\ \E mx \in RectMatrices, eps \in PerformanceEpsilons :
          LET r == calculateRemovalPerformance(mx, eps)
          IN  /\ entry' = "calculateRemovalPerformance"
              /\ normalizedMatrix' = mx
              /\ epsilonArg' = <<eps>>
              /\ removalPerformances' = r.val
              /\ warned' = r.warns
              /\ error' = r.err
              /\ pc' = "removed"
    /\ UNCHANGED <<matrix, criteriaTypes, decisionMatrix, overallPerformances,
                   absoluteDeviations, finalWeights, console, saved, result>>

\* performance and removal values a caller may pass: ordinary ones, the
\* ends of the double range (whose differences overflow) and non-finite ones
Largest == Canon(1, 1, 308)
DeviationCells == <<Num(1), Largest, Neg(Largest), NaN, Num(3), PosInf, Zero>>
DeviationOffsets == 0..(Len(DeviationCells) - 1)

\* performance vectors of 0..MaxRows entries
PerformanceVectors ==
    {GenMatrix(DeviationCells, 1, m, 0, b, s)[1] :
        m \in 0..MaxRows, b \in Strides, s \in DeviationOffsets}

\* removal matrices of 0..MaxRows rows and 0..MaxCols - 1 columns
RemovalMatrices ==
    {GenMatrix(DeviationCells, m, n, a, b, s) :
        m \in 0..MaxRows, n \in 0..(MaxCols - 1),
        a \in Strides, b \in Strides, s \in DeviationOffsets}

\* calculateAbsoluteDeviations(S, R)
DirectDeviations ==
    /\ pc = "idle"
    /\ \E S \in PerformanceVectors, R \in RemovalMatrices :
          LET r == calculateAbsoluteDeviations(S, R)
          IN  /\ entry' = "calculateAbsoluteDeviations"
              /\ overallPerformances' = S
              /\ removalPerformances' = R
              /\ absoluteDeviations' = r.val
              /\ warned' = r.warns
              /\ error' = r.err
              /\ pc' = "deviated"
    /\ UNCHANGED <<matrix, criteriaTypes, epsilonArg, decisionMatrix,
                   normalizedMatrix, finalWeights, console, saved, result>>

\* validateAbsoluteDeviations on the value of calculateAbsoluteDeviations
DirectValidateDeviations ==
    /\ pc = "deviated"
    /\ error = NoError
    /\ error' = validateAbsoluteDeviations(absoluteDeviations).err
    /\ pc' = "deviationsValidated"
    /\ UNCHANGED <<input, locals, console, saved, warned, result>>

\* deviations a caller may pass: ordinary, zero, negative, the ends of the
\* double range, subnormal and non-finite ones
Subnormal == Canon(1, 1, -320)
DeviationEntries ==
    {Zero, Num(1), Num(3), Num(-1), Largest, Neg(Largest),
     Subnormal, Canon(2, 1, -320), NaN, PosInf}

\* deviation vectors of 0..MaxCols entries
DeviationVectors == UNION {[1..n -> DeviationEntries] : n \in 0..MaxCols}

\* calculateFinalWeights(E)
DirectWeights ==
    /\ pc = "idle"
    /\ \E E \in DeviationVectors :
          LET r == calculateFinalWeights(E)
          IN  /\ entry' = "calculateFinalWeights"
              /\ absoluteDeviations' = E
              /\ finalWeights' = r.val
              /\ warned' = r.warns
              /\ error' = r.err
              /\ pc' = "weighted"
    /\ UNCHANGED <<matrix, criteriaTypes, epsilonArg, decisionMatrix,
                   normalizedMatrix, overallPerformances, removalPerformances,
                   console, saved, result>>

\* validateFinalWeights on the value of calculateFinalWeights
DirectValidateWeights ==
    /\ pc = "weighted"
    /\ error = NoError
    /\ error' = validateFinalWeights(finalWeights).err
    /\ pc' = "weightsValidated"
    /\ UNCHANGED <<input, locals, console, saved, warned, result>>

\* validateDecisionMatrix(mx, criteria), on matrices of any row lengths and
\* on rectangular matrices of any cell values
DirectValidateDecision ==
    /\ pc = "idle"
    /\ \E mx \in ShapeMatrices \cup RectMatrices, types \in ShapeTypeLists :
          /\ entry' = "validateDecisionMatrix"
          /\ decisionMatrix' = mx
          /\ criteriaTypes' = types
          /\ error' = validateDecisionMatrix(mx, Criteria(types)).err
          /\ pc' = "decisionValidated"
    /\ UNCHANGED <<matrix, epsilonArg, normalizedMatrix, overallPerformances,
                   removalPerformances, absoluteDeviations, finalWeights,
                   console, saved, warned, result>>

\* the caller has the value or the error of the stage function
DirectLeave ==
    /\ pc \in {"normalized", "validated", "performed", "removed",
               "deviated", "deviationsValidated", "weighted", "weightsValidated",
               "decisionValidated"}
    /\ pc' = "idle"
    /\ entry' = "CalculateWeight"
    /\ matrix' = <<>>
    /\ criteriaTypes' = <<>>
    /\ epsilonArg' = <<>>
    /\ decisionMatrix' = <<>>
    /\ normalizedMatrix' = <<>>
    /\ overallPerformances' = <<>>
    /\ removalPerformances' = <<>>
    /\ absoluteDeviations' = <<>>
    /\ finalWeights' = <<>>
    /\ warned' = {}
    /\ error' = NoError
    /\ UNCHANGED <<console, saved, result>>

StageNext ==
    \/ DirectNormalize
    \/ DirectValidateNormalized
    \/ DirectOverall
    \/ DirectRemoval
    \/ DirectDeviations
    \/ DirectValidateDeviations
    \/ DirectWeights
    \/ DirectValidateWeights
    \/ DirectValidateDecision
    \/ DirectLeave

StageSpec == Init /\ [][StageNext]_vars

\* ---------------------------------------------------------------------
\* Properties of the entry points

\* the matrix and the type list of the call in progress pass the input checks
Accepted ==
    /\ Len(matrix) > 0
    /\ Len(criteriaTypes) > 0
    /\ \A i \in 1..Len(matrix) : Len(matrix[i]) = Len(criteriaTypes)

\* nothing after the input checks has run: no handler saved or replaced,
\* no stage result, no warning
NoStageRan ==
    /\ decisionMatrix = <<>>
    /\ normalizedMatrix = <<>>
    /\ overallPerformances = <<>>
    /\ removalPerformances = <<>>
    /\ absoluteDeviations = <<>>
    /\ finalWeights = <<>>
    /\ originalConsoleLog = "unset"
    /\ originalConsoleWarn = "unset"
    /\ consoleLog = NativeLog
    /\ consoleWarn = NativeWarn
    /\ warned = {}

\* C1: whenever a call returns, the returned vector has one entry per
\* criterion type, every entry lies in [0, 1], and the entries sum to 1
\* within 1e-10.
C1_ReturnedWeightsNormalized ==
    pc = "returned" =>
        /\ Accepted
        /\ Len(result) = Len(criteriaTypes)
        /\ \A j \in 1..Len(result) : Ge(result[j], Zero) /\ Le(result[j], One)
        /\ Le(Abs(Sub(Sum(result), One)), Canon(1, 1, -10))

\* a call that returned three weights that are not all equal
C1_Witness ==
    /\ pc = "returned"
    /\ Len(result) = 3
    /\ result[1] # result[2]
    /\ Gt(result[3], Zero)

\* C2: a call with a one-column matrix (any number of rows, any cell
\* values) and one criterion type returns exactly [1].
C2_SingleCriterionReturnsOne ==
    (Accepted /\ Len(criteriaTypes) = 1) =>
        /\ pc # "thrown"
        /\ pc = "returned" => result = <<One>>

C5_ColumnCountMismatchRejected ==
    (/\ pc # "idle"
     /\ Len(matrix) > 0
     /\ Len(criteriaTypes) > 0
     /\ Len(matrix[1]) # Len(criteriaTypes)) =>
        /\ pc = "thrown"
        /\ error = Error("Jumlah kolom matrix harus sama dengan jumlah tipe kriteria",
                         Len(matrix[1]), Len(criteriaTypes))
        /\ result = <<>>
        /\ NoStageRan

\* the column-count error was reported for a matrix that also has a row of
\* another length than row 0
C5_Witness ==
    /\ pc = "thrown"
    /\ Len(matrix) > 1
    /\ Len(criteriaTypes) > 0
    /\ Len(matrix[1]) # Len(criteriaTypes)
    /\ \E i \in 2..Len(matrix) : Len(matrix[i]) # Len(matrix[1])
    /\ error.msg = "Jumlah kolom matrix harus sama dengan jumlah tipe kriteria"

\* C6: when row 0 has as many cells as there are types but some row has
\* another length, the call fails with the row error for the first such row,
\* named by its 1-based position, and nothing of the pipeline runs.
C6_FirstBadRowRejected ==
    LET n == Len(criteriaTypes)
        bad == {i \in 1..Len(matrix) : Len(matrix[i]) # n}
    IN  (/\ pc # "idle"
         /\ Len(matrix) > 0
         /\ n > 0
         /\ Len(matrix[1]) = n
         /\ bad # {}) =>
            /\ pc = "thrown"
            /\ error.msg = "Baris harus memiliki kolom"
            /\ error.a \in bad
            /\ \A i \in bad : error.a <= i
            /\ error.b = n
            /\ result = <<>>
            /\ NoStageRan

\* the row error names the second row of a matrix whose second and third
\* rows both have another length than row 0
C6_Witness ==
    /\ pc = "thrown"
    /\ Len(matrix) = 3
    /\ Len(criteriaTypes) = 3
    /\ Len(matrix[1]) = 3
    /\ Len(matrix[2]) = 2
    /\ Len(matrix[3]) = 1
    /\ error = Error("Baris harus memiliki kolom", 2, 3)

\* C7: a third argument epsilon is honoured: a call given an epsilon that is
\* not > 0 does not return, and the stages that take epsilon compute with
\* the value given (with 1e-10 when none is given).
C7_EpsilonArgumentHonoured ==
    LET epsilon == IF epsilonArg = <<>> THEN Epsilon ELSE epsilonArg[1]
        criteria == Criteria(criteriaTypes)
    IN  /\ pc = "returned" => Gt(epsilon, Zero)
        /\ pc = "val02" =>
              normalizedMatrix = calculateNormalizedMatrix(decisionMatrix, criteria, epsilon).val
        /\ pc = "val03" =>
              overallPerformances = calculateOverallPerformance(normalizedMatrix, epsilon).val
        /\ pc = "val04" =>
              removalPerformances = calculateRemovalPerformance(normalizedMatrix, epsilon).val

\* C8: the decision matrix keeps a raw value x > 0, holds |x| + 1 in place
\* of a raw value x <= 0, and so has every cell > 0 whatever the raw input.
C8_DecisionMatrixPositive ==
    (pc = "val01" /\ error = NoError) =>
        \A i \in 1..Len(matrix) : \A j \in 1..Len(matrix[i]) :
            LET x == matrix[i][j]
                y == decisionMatrix[i][j]
            IN  /\ Gt(x, Zero) => y = x
                /\ Le(x, Zero) => y = Add(Abs(x), One)
                /\ Gt(y, Zero)

\* C9: a call whose matrix is non-empty, rectangular and made of finite
\* numbers, with a type per column, does not throw.
C9_FiniteInputsReturn ==
    (/\ Accepted
     /\ \A i \in 1..Len(matrix) : \A j \in 1..Len(matrix[i]) : isFinite(matrix[i][j])) =>
        pc # "thrown"

C11_StagesInOrderFailFast ==
    [][ LET order == <<"suppress", "mer01", "val01", "mer02", "val02", "mer03", "val03",
                       "mer04", "val04", "mer05", "val05", "mer06", "val06", "finally">>
            at(k) == pc = order[k]
            made == <<decisionMatrix # <<>>, normalizedMatrix # <<>>,
                      overallPerformances # <<>>, removalPerformances # <<>>,
                      absoluteDeviations # <<>>, finalWeights # <<>> >>
        IN  /\ pc = "idle" =>
                  /\ pc' = IF error' = NoError THEN "suppress" ELSE "thrown"
                  /\ \A q \in 1..6 : ~made[q]'
            /\ \A k \in 1..13 : at(k) =>
                  /\ error = NoError
                  /\ pc' = IF error' = NoError THEN order[k + 1] ELSE "finally"
                  \* stage q (at order[2q]) has the results of stages 1..q-1 only
                  /\ \A q \in 1..6 : made[q] <=> 2 * q < k
            /\ pc = "finally" =>
                  /\ pc' = IF error = NoError THEN "returned" ELSE "thrown"
                  /\ error' = error
                  /\ UNCHANGED locals
                  /\ \A q \in 1..5 : made[q + 1] => made[q]
                  /\ error = NoError => made[6]
            /\ pc' = "thrown" => error' # NoError /\ result' = <<>>
            /\ pc' = "returned" => error' = NoError /\ result' = finalWeights
      ]_vars

\* the normalized-matrix validator threw: the four later stages left nothing
\* behind and the caller has its error
C11_Witness ==
    /\ pc = "thrown"
    /\ error.msg = "Nilai normalisasi tidak valid"
    /\ decisionMatrix # <<>>
    /\ normalizedMatrix # <<>>
    /\ overallPerformances = <<>>
    /\ finalWeights = <<>>
    /\ result = <<>>


\* C13: for the matrix [[8,7,6,5],[6,8,7,6],[7,6,8,7],[5,9,5,8]] with the
\* types benefit, benefit, cost, benefit the call returns a vector within
\* 1e-3, component by component, of [0.3519, 0.1917, 0.1998, 0.2566].
C13_FixtureWeights ==
    LET reference == <<Canon(3519, 1, -4), Canon(1917, 1, -4),
                       Canon(1998, 1, -4), Canon(2566, 1, -4)>>
    IN  (matrix = Fixture /\ criteriaTypes = FixtureTypes /\ pc \notin {"idle", "suppress"}) =>
            /\ pc # "thrown"
            /\ pc = "returned" =>
                  /\ Len(result) = 4
                  /\ \A j \in 1..4 :
                        Le(Abs(Sub(result[j], reference[j])), Canon(1, 1, -3))

\* the call on the fixture has returned its four weights
C13_Witness ==
    /\ pc = "returned"
    /\ matrix = Fixture
    /\ criteriaTypes = FixtureTypes
    /\ Len(result) = 4
    /\ Gt(result[1], result[4])
    /\ Gt(result[4], result[3])
    /\ Gt(result[3], result[2])


\* C12: no stage or validator writes into an array it was given: while a
\* call runs and when it has returned or thrown, the caller's matrix and
\* criteriaTypes are what they were at the call, and each stage result,
\* once made, is left as it is by everything that runs after.
C12_NoArrayMutated ==
    [][ (pc # "idle" /\ pc' # "idle") =>
            /\ matrix' = matrix
            /\ criteriaTypes' = criteriaTypes
            /\ pc \notin {"suppress", "mer01"} =>
                  decisionMatrix' = decisionMatrix
            /\ pc \notin {"suppress", "mer01", "val01", "mer02"} =>
                  normalizedMatrix' = normalizedMatrix
            /\ pc \notin {"suppress", "mer01", "val01", "mer02", "val02", "mer03"} =>
                  overallPerformances' = overallPerformances
            /\ pc \notin {"suppress", "mer01", "val01", "mer02", "val02", "mer03",
                          "val03", "mer04"} =>
                  removalPerformances' = removalPerformances
            /\ pc \notin {"suppress", "mer01", "val01", "mer02", "val02", "mer03",
                          "val03", "mer04", "val04", "mer05"} =>
                  absoluteDeviations' = absoluteDeviations
      ]_vars

\* a call on a matrix with a non-positive cell has returned: the decision
\* matrix holds the repaired value and the caller's matrix the raw one
C12_Witness ==
    /\ pc = "returned"
    /\ \E i \in 1..Len(matrix) : \E j \in 1..Len(matrix[i]) :
          /\ Le(matrix[i][j], Zero)
          /\ decisionMatrix[i][j] = Add(Abs(matrix[i][j]), One)
    /\ result # <<>>


\* C14 (as stated): with one criterion the result [1] comes from the
\* fallback: every removal cell is 0, the deviation vector is [0], and
\* calculateFinalWeights takes its uniform branch, whatever the column holds.
C14_SingleCriterionViaFallback ==
    (Accepted /\ Len(criteriaTypes) = 1) =>
        /\ removalPerformances # <<>> =>
              \A i \in 1..Len(removalPerformances) : removalPerformances[i] = <<Zero>>
        /\ absoluteDeviations # <<>> => absoluteDeviations = <<Zero>>
        /\ finalWeights # <<>> =>
              /\ finalWeights = <<One>>
              /\ "Total deviasi adalah 0 atau tidak terbatas" \in warned

\* C14 (amended): with one criterion every removal cell is 0 and the
\* deviation vector is [sum over i of |0 - S_i|], which is 0 only when every
\* S_i is 0; calculateFinalWeights takes its uniform branch exactly when that
\* sum is 0 and otherwise its normal branch, E_1 / E_1, and gives [1] either
\* way.
C14_SingleCriterionPath ==
    (Accepted /\ Len(criteriaTypes) = 1) =>
        /\ removalPerformances # <<>> =>
              /\ \A i \in 1..Len(removalPerformances) : removalPerformances[i] = <<Zero>>
              /\ "Hanya ada 1 kriteria" \in warned
        /\ absoluteDeviations # <<>> =>
              /\ absoluteDeviations =
                    <<Sum([i \in 1..Len(overallPerformances) |->
                              Abs(Sub(Zero, overallPerformances[i]))])>>
              /\ Eq(absoluteDeviations[1], Zero) <=>
                    \A i \in 1..Len(overallPerformances) : overallPerformances[i] = Zero
        /\ finalWeights # <<>> =>
              /\ finalWeights = <<One>>
              /\ "Total deviasi adalah 0 atau tidak terbatas" \in warned
                    <=> Eq(absoluteDeviations[1], Zero)

\* a one-column call returned [1] through the normal branch: the deviation
\* is not 0 and the uniform fallback was not taken
C14_Witness ==
    /\ pc = "returned"
    /\ Len(criteriaTypes) = 1
    /\ Len(matrix) = 2
    /\ removalPerformances = << <<Zero>>, <<Zero>> >>
    /\ Gt(absoluteDeviations[1], Zero)
    /\ "Total deviasi adalah 0 atau tidak terbatas" \notin warned
    /\ result = <<One>>


\* ---------------------------------------------------------------------
\* Properties of the stage functions

\* C15: on a decision matrix whose cells are all > 0, calculateNormalizedMatrix
\* gives N[i][j] = min_k X[k][j] / max(X[i][j], epsilon) in a benefit column
\* and N[i][j] = max(X[i][j], epsilon) / max_k X[k][j] in a cost column, the
\* minimum and maximum being those of the whole column.
C15_NormalizationFormula ==
    LET X == decisionMatrix
        m == Len(X)
        epsilon == epsilonArg[1]
        col(j) == {X[k][j] : k \in 1..m}
        colMin(j) == CHOOSE v \in col(j) : \A w \in col(j) : Le(v, w)
        colMax(j) == CHOOSE v \in col(j) : \A w \in col(j) : Ge(v, w)
    IN  (/\ pc \in {"normalized", "validated"}
         /\ \A i \in 1..m : \A j \in 1..Len(X[i]) : Gt(X[i][j], Zero)) =>
            /\ Len(normalizedMatrix) = m
            /\ \A i \in 1..m :
                  /\ Len(normalizedMatrix[i]) = Len(criteriaTypes)
                  /\ \A j \in 1..Len(criteriaTypes) :
                        normalizedMatrix[i][j] =
                            IF criteriaTypes[j] = "benefit"
                            THEN Div(colMin(j), Max2(X[i][j], epsilon))
                            ELSE Div(Max2(X[i][j], epsilon), colMax(j))

\* a positive two-row matrix with a benefit and a cost column and a cell
\* below epsilon has been normalized and accepted
C15_Witness ==
    /\ pc = "validated"
    /\ error = NoError
    /\ Len(decisionMatrix) = 2
    /\ \E j, k \in 1..Len(criteriaTypes) :
          criteriaTypes[j] = "benefit" /\ criteriaTypes[k] = "cost"
    /\ \A i \in 1..2 : \A j \in 1..Len(criteriaTypes) : Gt(decisionMatrix[i][j], Zero)
    /\ \E i \in 1..2 : \E j \in 1..Len(criteriaTypes) :
          /\ Lt(decisionMatrix[i][j], epsilonArg[1])
          /\ normalizedMatrix[i][j] # One

\* C16: on a decision matrix whose cells are all finite and > 0, with
\* epsilon > 0, every normalized cell is finite and > 0 and
\* validateNormalizedMatrix does not throw; and validateNormalizedMatrix
\* throws on every matrix that has a cell that is non-finite or <= 0.
C16_NormalizedCellsValid ==
    LET X == decisionMatrix
        N == normalizedMatrix
        invalid(v) == ~isFinite(v) \/ Le(v, Zero)
    IN  /\ (/\ pc \in {"normalized", "validated"}
            /\ Gt(epsilonArg[1], Zero)
            /\ \A i \in 1..Len(X) : \A j \in 1..Len(X[i]) :
                  isFinite(X[i][j]) /\ Gt(X[i][j], Zero)) =>
               /\ \A i \in 1..Len(N) : \A j \in 1..Len(N[i]) : ~invalid(N[i][j])
               /\ error = NoError
        /\ (/\ pc = "validated"
            /\ \E i \in 1..Len(N) : \E j \in 1..Len(N[i]) : invalid(N[i][j])) =>
               error.msg = "Nilai normalisasi tidak valid"

C18_BenefitColumnScaleInvariant ==
    LET X == decisionMatrix
        m == Len(X)
        n == Len(criteriaTypes)
        scales == {Num(2), Canon(1, 1, 2), Canon(1, 1, -1)}
        times(x, c) == Div(x, Div(One, c))
        scaled(j, c) == [i \in 1..m |->
                            [k \in 1..n |-> IF k = j THEN times(X[i][k], c) ELSE X[i][k]]]
        same(A, B) == \A i \in 1..m : \A k \in 1..n :
                          A[i][k] = B[i][k] \/ Eq(A[i][k], B[i][k])
    IN  (/\ pc \in {"normalized", "validated"}
         /\ \A i \in 1..m : \A k \in 1..n : isFinite(X[i][k]) /\ Gt(X[i][k], Zero)) =>
            \A j \in 1..n : \A c \in scales :
                criteriaTypes[j] = "benefit" =>
                    same(calculateNormalizedMatrix(scaled(j, c), Criteria(criteriaTypes),
                                                   epsilonArg[1]).val,
                         normalizedMatrix)

\* C18 (amended): the same, for a benefit column whose cells, before and
\* after the multiplication by c, are finite and at least epsilon.
C18_ScaleInvariantAboveEpsilon ==
    LET X == decisionMatrix
        m == Len(X)
        n == Len(criteriaTypes)
        epsilon == epsilonArg[1]
        scales == {Num(2), Canon(1, 1, 2), Canon(1, 1, -1)}
        times(x, c) == Div(x, Div(One, c))
        scaled(j, c) == [i \in 1..m |->
                            [k \in 1..n |-> IF k = j THEN times(X[i][k], c) ELSE X[i][k]]]
        inRange(x) == isFinite(x) /\ Ge(x, epsilon)
        same(A, B) == \A i \in 1..m : \A k \in 1..n :
                          A[i][k] = B[i][k] \/ Eq(A[i][k], B[i][k])
    IN  (/\ pc \in {"normalized", "validated"}
         /\ \A i \in 1..m : \A k \in 1..n : isFinite(X[i][k]) /\ Gt(X[i][k], Zero)) =>
            \A j \in 1..n : \A c \in scales :
                (/\ criteriaTypes[j] = "benefit"
                 /\ \A i \in 1..m : inRange(X[i][j]) /\ inRange(times(X[i][j], c))) =>
                    same(calculateNormalizedMatrix(scaled(j, c), Criteria(criteriaTypes),
                                                   epsilon).val,
                         normalizedMatrix)

\* a two-row matrix was normalized whose benefit column has two different
\* cells, both at least epsilon when multiplied by 1/10
C18_Witness ==
    /\ pc = "normalized"
    /\ error = NoError
    /\ Len(decisionMatrix) = 2
    /\ Len(criteriaTypes) >= 2
    /\ criteriaTypes[1] = "benefit"
    /\ \A i \in 1..2 : \A k \in 1..Len(criteriaTypes) : Gt(decisionMatrix[i][k], Zero)
    /\ isFinite(decisionMatrix[2][1])
    /\ Gt(decisionMatrix[2][1], decisionMatrix[1][1])
    /\ Ge(Div(decisionMatrix[1][1], Num(10)), epsilonArg[1])
    /\ normalizedMatrix[1][1] = One
    /\ Lt(normalizedMatrix[2][1], One)
    /\ Gt(normalizedMatrix[2][1], Zero)

C21_DeviationInputsChecked ==
    LET S == overallPerformances
        R == removalPerformances
        m == Len(S)
        n == IF Len(R) = 0 THEN 0 ELSE Len(R[1])
    IN  pc = "deviated" =>
            /\ m = 0 =>
                  error = Error("Array kinerja keseluruhan tidak boleh kosong", 0, 0)
            /\ (m # 0 /\ Len(R) # m) =>
                  error = Error("Jumlah baris matriks removal tidak sesuai dengan jumlah alternatif",
                                Len(R), m)
            /\ (m # 0 /\ Len(R) = m /\ n = 0) =>
                  error = Error("Matriks kinerja removal tidak boleh kosong", 0, 0)
            /\ (m # 0 /\ Len(R) = m /\ n # 0) => error = NoError
            /\ error # NoError => absoluteDeviations = <<>>

\* an empty performance vector came with a removal matrix that has rows,
\* and the call threw
C21_Witness ==
    /\ pc = "deviated"
    /\ overallPerformances = <<>>
    /\ Len(removalPerformances) = 2
    /\ error # NoError
    /\ absoluteDeviations = <<>>

\* C22 (as stated): for a performance vector S and a removal matrix S' of
\* the same row count, entries finite or not, calculateAbsoluteDeviations
\* returns n entries, entry j being the sum over i of |S'[i][j] - S[i]| with
\* non-finite S[i], S'[i][j] read as 0; each entry is finite and >= 0 and
\* validateAbsoluteDeviations accepts the vector.
C22_DeviationsAreSums ==
    LET S == overallPerformances
        R == removalPerformances
        m == Len(S)
        n == IF Len(R) = 0 THEN 0 ELSE Len(R[1])
        zeroed(x) == IF x.k = "fin" THEN x ELSE Zero
        total(j) == Sum([i \in 1..m |-> Abs(Sub(zeroed(R[i][j]), zeroed(S[i])))])
        same(x, y) == x = y \/ Eq(x, y)
    IN  (pc \in {"deviated", "deviationsValidated"} /\ m >= 1 /\ Len(R) = m /\ n >= 1) =>
            /\ error = NoError
            /\ Len(absoluteDeviations) = n
            /\ \A j \in 1..n :
                  /\ same(absoluteDeviations[j], total(j))
                  /\ isFinite(absoluteDeviations[j])
                  /\ Ge(absoluteDeviations[j], Zero)

\* C22 (amended): the same, entry j being 0 when the sum over i is not
\* finite (the differences overflow the double range).
C22_DeviationsAreSumsOrZero ==
    LET S == overallPerformances
        R == removalPerformances
        m == Len(S)
        n == IF Len(R) = 0 THEN 0 ELSE Len(R[1])
        zeroed(x) == IF x.k = "fin" THEN x ELSE Zero
        total(j) == Sum([i \in 1..m |-> Abs(Sub(zeroed(R[i][j]), zeroed(S[i])))])
    IN  (pc \in {"deviated", "deviationsValidated"} /\ m >= 1 /\ Len(R) = m /\ n >= 1) =>
            /\ error = NoError
            /\ Len(absoluteDeviations) = n
            /\ \A j \in 1..n :
                  /\ Eq(absoluteDeviations[j],
                        IF isFinite(total(j)) THEN total(j) ELSE Zero)
                  /\ isFinite(absoluteDeviations[j])
                  /\ Ge(absoluteDeviations[j], Zero)

\* the validator has accepted the deviations of two alternatives, one of
\* them with a non-finite performance; the first deviation is above 0 and
\* the second, whose differences overflow, is 0
C22_Witness ==
    /\ pc = "deviationsValidated"
    /\ error = NoError
    /\ Len(overallPerformances) = 2
    /\ \E i \in 1..2 : ~isFinite(overallPerformances[i])
    /\ Len(absoluteDeviations) = 2
    /\ Gt(absoluteDeviations[1], Zero)
    /\ absoluteDeviations[2] = Zero
    /\ "Deviasi absolut tidak terbatas" \in warned

\* C23 (as stated): for deviations E, n >= 1 of them, all >= 0,
\* calculateFinalWeights returns n times 1/n when the sum of E is 0 or not
\* finite, and otherwise W[j] = E[j] / sum(E), with W[j] >= W[k] exactly when
\* E[j] >= E[k].
C23_WeightsProportional ==
    LET E == absoluteDeviations
        W == finalWeights
        n == Len(E)
        total == Sum(E)
    IN  (pc \in {"weighted", "weightsValidated"} /\ n >= 1
         /\ \A j \in 1..n : Ge(E[j], Zero)) =>
            /\ Len(W) = n
            /\ IF Eq(total, Zero) \/ ~isFinite(total)
               THEN \A j \in 1..n : Eq(W[j], Div(One, Num(n)))
               ELSE /\ \A j \in 1..n : Eq(W[j], Div(E[j], total))
                    /\ \A j \in 1..n : \A k \in 1..n :
                          Ge(W[j], W[k]) <=> Ge(E[j], E[k])

\* C23 (amended): the same, with W[j] >= W[k] whenever E[j] >= E[k]; two
\* different deviations may get the same weight (both quotients underflow
\* to 0).
C23_WeightsProportionalMonotone ==
    LET E == absoluteDeviations
        W == finalWeights
        n == Len(E)
        total == Sum(E)
    IN  (pc \in {"weighted", "weightsValidated"} /\ n >= 1
         /\ \A j \in 1..n : Ge(E[j], Zero)) =>
            /\ Len(W) = n
            /\ IF Eq(total, Zero) \/ ~isFinite(total)
               THEN \A j \in 1..n : Eq(W[j], Div(One, Num(n)))
               ELSE /\ \A j \in 1..n : Eq(W[j], Div(E[j], total))
                    /\ \A j \in 1..n : \A k \in 1..n :
                          Ge(E[j], E[k]) => Ge(W[j], W[k])

\* three deviations 1, 3 and 0 were weighted 1/4, 3/4 and 0
C23_Witness ==
    /\ pc = "weighted"
    /\ error = NoError
    /\ absoluteDeviations = <<Num(1), Num(3), Zero>>
    /\ Len(finalWeights) = 3
    /\ Gt(finalWeights[2], finalWeights[1])
    /\ Gt(finalWeights[1], finalWeights[3])

\* C24: for every non-empty deviation vector (negative entries, mixed
\* signs, a total that is 0 or negative, non-finite entries included) every
\* weight returned by calculateFinalWeights is finite and in [0, 1], the
\* weights sum to 1 within 1e-10, and validateFinalWeights accepts them.
C24_WeightsAlwaysValid ==
    LET W == finalWeights
        n == Len(absoluteDeviations)
    IN  (pc \in {"weighted", "weightsValidated"} /\ n >= 1) =>
            /\ error = NoError
            /\ Len(W) = n
            /\ \A j \in 1..n : isFinite(W[j]) /\ Ge(W[j], Zero) /\ Le(W[j], One)
            /\ Le(Abs(Sub(Sum(W), One)), SumTolerance)

\* C25: validateDecisionMatrix returns normally exactly for the matrices
\* with at least one row whose rows all have criteria.length >= 1 cells, all
\* of them > 0; it throws for an empty matrix, for any row of another
\* length and for any cell that is not > 0.
C25_DecisionMatrixRechecked ==
    LET X == decisionMatrix
        m == Len(X)
        n == Len(criteriaTypes)
        valid == /\ m >= 1
                 /\ n >= 1
                 /\ \A i \in 1..m : Len(X[i]) = n
                 /\ \A i \in 1..m : \A j \in 1..Len(X[i]) : Gt(X[i][j], Zero)
    IN  pc = "decisionValidated" => (error = NoError <=> valid)

\* C26: between the calls of any sequence of calls of the two entry points,
\* returned or thrown, console.log and console.warn are the handlers of
\* before the first call: a call refused by the input checks never touches
\* them, and a call that entered the try block leaves it only through
\* finally, which puts back the handlers the call saved.
C26_HandlersRestoredAfterEveryCall ==
    [][ LET try == {"mer01", "val01", "mer02", "val02", "mer03", "val03",
                    "mer04", "val04", "mer05", "val05", "mer06", "val06"}
        IN  /\ pc' \in {"idle", "returned", "thrown"} =>
                  consoleLog' = NativeLog /\ consoleWarn' = NativeWarn
            /\ (pc = "idle" /\ pc' = "thrown") =>
                  /\ UNCHANGED console
                  /\ originalConsoleLog' = "unset"
                  /\ originalConsoleWarn' = "unset"
            /\ (pc \in try /\ pc' \notin try) => pc' = "finally"
            /\ pc = "finally" =>
                  /\ consoleLog' = originalConsoleLog
                  /\ consoleWarn' = originalConsoleWarn
                  /\ pc' \in {"returned", "thrown"}
      ]_vars

\* a call of the free function has returned its weights with both handlers
\* back, and the warnings of its stages went to the no-op handler
C26_Witness ==
    /\ pc = "returned"
    /\ entry = "calculateMerecWeights"
    /\ result # <<>>
    /\ warned # {}
    /\ originalConsoleLog = NativeLog
    /\ originalConsoleWarn = NativeWarn
    /\ consoleLog = NativeLog
    /\ consoleWarn = NativeWarn

C28_IdenticalRowsUniform ==
    LET X == decisionMatrix
        m == Len(X)
        n == Len(criteriaTypes)
        all(M, v) == \A i \in 1..Len(M) : \A j \in 1..Len(M[i]) : M[i][j] = v
    IN  (/\ Accepted
         /\ m >= 1
         /\ \A i \in 1..m : X[i] = X[1]
         /\ \A j \in 1..n : isFinite(X[1][j])) =>
            /\ all(normalizedMatrix, One)
            /\ all(<<overallPerformances>>, Zero)
            /\ all(removalPerformances, Zero)
            /\ all(<<absoluteDeviations>>, Zero)
            /\ error = NoError
            /\ pc = "returned" =>
                  /\ Len(result) = n
                  /\ \A j \in 1..n : Eq(result[j], Div(One, Num(n)))

\* C28 (amended): the same, when moreover every cell of the repaired matrix
\* is finite and at least epsilon.
C28_IdenticalRowsAboveEpsilonUniform ==
    LET X == decisionMatrix
        m == Len(X)
        n == Len(criteriaTypes)
        all(M, v) == \A i \in 1..Len(M) : \A j \in 1..Len(M[i]) : M[i][j] = v
    IN  (/\ Accepted
         /\ m >= 1
         /\ \A i \in 1..m : X[i] = X[1]
         /\ \A j \in 1..n : isFinite(X[1][j]) /\ Ge(X[1][j], Epsilon)) =>
            /\ all(normalizedMatrix, One)
            /\ all(<<overallPerformances>>, Zero)
            /\ all(removalPerformances, Zero)
            /\ all(<<absoluteDeviations>>, Zero)
            /\ error = NoError
            /\ pc = "returned" =>
                  /\ Len(result) = n
                  /\ \A j \in 1..n : Eq(result[j], Div(One, Num(n)))

\* a call on two equal rows of three cells, one of them repaired, with tags
\* of both kinds, has returned 1/3 three times
C28_Witness ==
    /\ pc = "returned"
    /\ Len(matrix) = 2
    /\ matrix[1] = matrix[2]
    /\ Len(criteriaTypes) = 3
    /\ \E j \in 1..3 : Le(matrix[1][j], Zero)
    /\ \E j \in 1..3 : criteriaTypes[j] = "benefit"
    /\ \E j \in 1..3 : criteriaTypes[j] = "cost"
    /\ decisionMatrix[1] # matrix[1]
    /\ Len(result) = 3
    /\ \A j \in 1..3 : Eq(result[j], Div(One, Num(3)))

\* C29: a criterion's weight does not depend on its column: when a call
\* returns weights, the call on the matrix and the type list with their
\* columns permuted by p returns the same weights permuted by p, for every
\* permutation p; when it throws after the input checks, so does the
\* permuted call, with the same message.
C29_ColumnPermutationEquivariant ==
    LET n == Len(criteriaTypes)
        perms == {p \in [1..n -> 1..n] : \A a \in 1..n : \A b \in 1..n : a # b => p[a] # p[b]}
        permuted(row, p) == [j \in 1..n |-> row[p[j]]]
        outcome(p) == PipelineOutcome([i \in 1..Len(matrix) |-> permuted(matrix[i], p)],
                                      permuted(criteriaTypes, p))
    IN  (pc \in {"returned", "thrown"} /\ Accepted) =>
            \A p \in perms : \A o \in {outcome(p)} :
                /\ o.err.msg = error.msg
                /\ Len(o.val) = Len(result)
                /\ \A j \in 1..Len(result) : Eq(o.val[j], result[p[j]])

\* a call on three columns of both kinds, the first two of different cells,
\* has returned weights that are not the uniform ones
C29_Witness ==
    /\ pc = "returned"
    /\ Len(criteriaTypes) = 3
    /\ criteriaTypes[1] # criteriaTypes[2]
    /\ matrix[1][1] # matrix[1][2]
    /\ Len(result) = 3
    /\ ~Eq(result[1], Div(One, Num(3)))
    /\ ~Eq(result[2], Div(One, Num(3)))

\* C30: in a call of an entry point every raw cell x <= 0 reaches the
\* normalizer as |x| + 1 >= 1, so no column of the decision matrix has a
\* minimum <= 0 or a maximum equal to 0, also when every cell of the column
\* was repaired, and the normalizer never substitutes epsilon for a column.
C30_FallbacksUnreachable ==
    LET X == decisionMatrix
        m == Len(X)
        n == Len(criteriaTypes)
        column(j) == [i \in 1..m |-> X[i][j]]
        usual(i, j) ==
            IF criteriaTypes[j] = "benefit"
            THEN Div(MinTo(column(j), m), Max2(X[i][j], Epsilon))
            ELSE Div(Max2(X[i][j], Epsilon), MaxTo(column(j), m))
    IN  X # <<>> =>
            /\ \A i \in 1..m : \A j \in 1..n :
                  /\ Le(matrix[i][j], Zero) =>
                        /\ X[i][j] = Add(Abs(matrix[i][j]), One)
                        /\ Ge(X[i][j], One)
                  /\ ~Le(X[i][j], Zero)
            /\ \A j \in 1..n :
                  /\ ~Le(MinTo(column(j), m), Zero)
                  /\ ~Eq(MaxTo(column(j), m), Zero)
            /\ "Kriteria benefit memiliki nilai minimum <= 0" \notin warned
            /\ "Kriteria cost memiliki nilai maksimum 0" \notin warned
            /\ normalizedMatrix # <<>> =>
                  \A i \in 1..m : \A j \in 1..n : normalizedMatrix[i][j] = usual(i, j)

\* a matrix of two rows with a benefit and a cost column whose raw cells are
\* all <= 0 has been normalized
C30_Witness ==
    /\ pc = "val02"
    /\ Len(matrix) = 2
    /\ Len(criteriaTypes) >= 2
    /\ \E j \in 1..Len(criteriaTypes) :
          /\ criteriaTypes[j] = "benefit"
          /\ \A i \in 1..2 : Le(matrix[i][j], Zero)
    /\ \E j \in 1..Len(criteriaTypes) :
          /\ criteriaTypes[j] = "cost"
          /\ \A i \in 1..2 : Le(matrix[i][j], Zero)
    /\ \E i \in 1..2 : \E j \in 1..Len(criteriaTypes) : matrix[i][j] = Zero
    /\ normalizedMatrix # <<>>
    /\ "Nilai negatif atau nol ditemukan" \in warned

====
